---- MODULE Spec2Model ----
(***************************************************************************)
(* Model of ghost.py: a trie over a fixed alphabet for the word game       *)
(* Ghost, with insertion (add_word), re-rooting at a prefix (find_prefix), *)
(* an in-place minimax labelling pass (update_winners) and the extraction  *)
(* of one winning continuation (find_a_winner).                            *)
(*                                                                         *)
(* Node objects live in a heap (a sequence of records, a node's identity   *)
(* is its index); Trie wrappers hold a head reference and first_move and   *)
(* may share nodes.  Characters are code points, strings are sequences of  *)
(* code points.                                                            *)
(***************************************************************************)
EXTENDS Integers, Sequences, FiniteSets, TLC

VARIABLES
    heap,   \* the Node objects: heap[n] is the node with reference n
    tries,  \* the Trie wrappers made so far: tries[1] is Trie(first_move)
    last,   \* the last call of the caller and its outcome
    ops,    \* number of calls made so far
    pc      \* position of a caller that asks one query, as test() does

vars == <<heap, tries, last, ops, pc>>

\* ---------------------------------------------------------------- bounds
\* rbase argument of Trie(...): number of child slots per node
RBase == 2
\* longest word / prefix handed to add_word and find_prefix
MaxWordLen == 2
\* number of words a query inserts before it is answered
MaxWords == 2
\* number of calls made by a caller that uses the methods in any order
MaxOps == 5

\* ------------------------------------------------------------- constants
\* ord("a"), the default refchar of Trie.__init__
refchar == 97

\* -------------------------------------------------------------- Player
Player_YOU == "YOU"
Player_OTHER == "OTHER"
Player_UNDETERMINED == "UNDETERMINED"

Player == {Player_YOU, Player_OTHER, Player_UNDETERMINED}

\* Player.change_turn; on Player_UNDETERMINED the method raises
change_turn(self) ==
    IF self = Player_UNDETERMINED THEN "NotImplementedError"
    ELSE IF self = Player_YOU THEN Player_OTHER ELSE Player_YOU

\* ---------------------------------------------------------------- nodes
\* an empty child slot
None == 0

Slots == 0 .. (RBase - 1)

\* Trie.Node.__init__
Node == [letters |-> [p \in Slots |-> None], winner |-> Player_UNDETERMINED, ender |-> FALSE]

\* Trie._pos
pos(char) == char - refchar

\* Trie._char
chr(p) == p + refchar

\* the characters the caller may use (sanitised input)
Letters == {chr(p) : p \in Slots}

RECURSIVE StringsUpTo(_)
StringsUpTo(n) ==
    IF n = 0 THEN {<<>>}
    ELSE LET S == StringsUpTo(n - 1)
         IN  S \cup {Append(s, c) : s \in {t \in S : Len(t) = n - 1}, c \in Letters}

Words == StringsUpTo(MaxWordLen)

\* ------------------------------------------------------------- add_word
\* the for loop of add_word from position k of word, then the two
\* statements after it; returns the heap
RECURSIVE add_word_loop(_, _, _, _)

\* add_word without line 63: the children of the final node are kept
RECURSIVE add_word_loop_keeps_children(_, _, _, _)
add_word_loop_keeps_children(h, curr, word, k) ==
    IF k > Len(word) \/ h[curr].ender
    THEN [h EXCEPT ![curr].ender = TRUE]
    ELSE LET p == pos(word[k])
         IN  IF h[curr].letters[p] = None
             THEN LET fresh == Len(h) + 1
                      h2 == [Append(h, Node) EXCEPT ![curr].letters[p] = fresh]
                  IN  add_word_loop_keeps_children(h2, fresh, word, k + 1)
             ELSE add_word_loop_keeps_children(h, h[curr].letters[p], word, k + 1)

add_word_loop(h, curr, word, k) ==
    IF k > Len(word) \/ h[curr].ender
    THEN [h EXCEPT ![curr].ender = TRUE,
                   ![curr].letters = [p \in Slots |-> None]]
    ELSE LET p == pos(word[k])
         IN  IF h[curr].letters[p] = None
             THEN LET fresh == Len(h) + 1
                      h2 == [Append(h, Node) EXCEPT ![curr].letters[p] = fresh]
                  IN  add_word_loop(h2, fresh, word, k + 1)
             ELSE add_word_loop(h, h[curr].letters[p], word, k + 1)

add_word(h, self, word) == add_word_loop(h, self.head, word, 1)

\* ------------------------------------------------------- update_winners
RECURSIVE recurse_update(_, _, _)
RECURSIVE recurse_update_loop(_, _, _, _)

\* the DFS loop recursing with turn_player itself, not with the other player
recurse_update_loop_same_turn(h, curr_node, turn_player, p) ==
    IF p = RBase THEN h
    ELSE LET letter == h[curr_node].letters[p]
         IN  IF letter = None
             THEN recurse_update_loop(h, curr_node, turn_player, p + 1)
             ELSE LET h1 == recurse_update(h, letter, turn_player)
                      h2 == [h1 EXCEPT ![curr_node].winner =
                                IF h1[letter].winner = turn_player
                                THEN turn_player
                                ELSE h1[curr_node].winner]
                  IN  recurse_update_loop(h2, curr_node, turn_player, p + 1)

\* the DFS loop of recurse_update over the slots p, p+1, ...
recurse_update_loop(h, curr_node, turn_player, p) ==
    IF p = RBase THEN h
    ELSE LET letter == h[curr_node].letters[p]
         IN  IF letter = None
             THEN recurse_update_loop(h, curr_node, turn_player, p + 1)
             ELSE LET h1 == recurse_update(h, letter, change_turn(turn_player))
                      h2 == [h1 EXCEPT ![curr_node].winner =
                                IF h1[letter].winner = turn_player
                                THEN turn_player
                                ELSE h1[curr_node].winner]
                  IN  recurse_update_loop(h2, curr_node, turn_player, p + 1)

\* recurse_update without lines 98-101: a node nobody claimed stays unlabelled
recurse_update_leaves_undetermined(h, curr_node, turn_player) ==
    LET h0 == IF h[curr_node].ender
              THEN [h EXCEPT ![curr_node].winner = turn_player]
              ELSE h
    IN  recurse_update_loop(h0, curr_node, turn_player, 0)

recurse_update(h, curr_node, turn_player) ==
    LET h0 == IF h[curr_node].ender
              THEN [h EXCEPT ![curr_node].winner = turn_player]
              ELSE h
        h1 == recurse_update_loop(h0, curr_node, turn_player, 0)
    IN  IF h1[curr_node].winner = Player_UNDETERMINED
        THEN [h1 EXCEPT ![curr_node].winner = change_turn(turn_player)]
        ELSE h1

\* the player who moves at the head of a Trie
first_mover(self) == IF self.first_move THEN Player_YOU ELSE Player_OTHER

update_winners(h, self) == recurse_update(h, self.head, first_mover(self))

\* -------------------------------------------------------- find_a_winner
RECURSIVE recurse_search(_, _)
RECURSIVE recurse_search_loop(_, _, _, _)

\* the loop of recurse_search returning the tail without the current letter
recurse_search_loop_drops_letter(h, curr, i, leaf_index) ==
    IF i = RBase
    THEN IF leaf_index >= 0 THEN <<chr(leaf_index)>> ELSE <<>>
    ELSE LET letter == h[curr].letters[i]
         IN  IF letter = None \/ h[letter].winner = Player_OTHER
             THEN recurse_search_loop(h, curr, i + 1, leaf_index)
             ELSE LET li == IF h[letter].ender /\ leaf_index >= -1 THEN i ELSE -2
                      tail_word == recurse_search(h, letter)
                  IN  IF tail_word # <<>>
                      THEN tail_word
                      ELSE recurse_search_loop(h, curr, i + 1, li)

\* the loop of recurse_search from slot i with the current leaf_index,
\* then the statements after the loop
recurse_search_loop(h, curr, i, leaf_index) ==
    IF i = RBase
    THEN IF leaf_index >= 0 THEN <<chr(leaf_index)>> ELSE <<>>
    ELSE LET letter == h[curr].letters[i]
         IN  IF letter = None \/ h[letter].winner = Player_OTHER
             THEN recurse_search_loop(h, curr, i + 1, leaf_index)
             ELSE LET li == IF h[letter].ender /\ leaf_index >= -1 THEN i ELSE -2
                      tail_word == recurse_search(h, letter)
                  IN  IF tail_word # <<>>
                      THEN <<chr(i)>> \o tail_word
                      ELSE recurse_search_loop(h, curr, i + 1, li)

recurse_search(h, curr) == recurse_search_loop(h, curr, 0, -1)

find_a_winner(h, self) ==
    IF h[self.head].winner = Player_YOU THEN recurse_search(h, self.head) ELSE <<>>

\* ---------------------------------------------------------- find_prefix
\* what find_prefix_loop yields when the loop raises Exception
Raised == -1

\* the for loop of find_prefix from position k: the node reached, or
\* Raised when the loop raises
RECURSIVE find_prefix_loop(_, _, _, _)
find_prefix_loop(h, curr, prefix, k) ==
    IF k > Len(prefix) THEN curr
    ELSE IF h[curr].ender \/ h[curr].letters[pos(prefix[k])] = None
         THEN Raised
         ELSE find_prefix_loop(h, h[curr].letters[pos(prefix[k])], prefix, k + 1)

\* the first_move argument of the returned Trie: first_move != len(letter) % 2
\* where letter is the loop variable, a one-character string
view_first_move(first_move) == (IF first_move THEN 1 ELSE 0) # (1 % 2)

\* outcome of find_prefix: the exception raised (if any) and the new Trie
find_prefix(h, self, prefix) ==
    LET curr == find_prefix_loop(h, self.head, prefix, 1)
    IN  IF curr = Raised
        THEN [exc |-> "Exception", trie |-> self]
        ELSE IF Len(prefix) = 0
             \* the loop variable was never bound
             THEN [exc |-> "UnboundLocalError", trie |-> self]
             ELSE [exc |-> "none",
                   trie |-> [head |-> curr,
                             first_move |-> view_first_move(self.first_move)]]

\* ------------------------------------------------------------ the caller
NoCall == [op |-> "none", trie |-> 0, ret |-> <<>>, exc |-> "none",
           fresh |-> FALSE]

\* nodes reachable from node n through child slots
RECURSIVE Reach(_, _)
Reach(h, n) ==
    {n} \cup UNION {Reach(h, h[n].letters[p]) : p \in {q \in Slots : h[n].letters[q] # None}}

\* d = Trie(first_move)
Init ==
    /\ heap = <<Node>>
    /\ \E f \in BOOLEAN : tries = <<[head |-> 1, first_move |-> f]>>
    /\ last = NoCall
    /\ ops = 0
    /\ pc = "build"

\* tries[i].add_word(word)
AddWord(i, word) ==
    /\ heap' = add_word(heap, tries[i], word)
    /\ last' = [NoCall EXCEPT !.op = "add_word", !.trie = i]
    /\ ops' = ops + 1
    /\ UNCHANGED tries

\* tries[i].update_winners(); fresh records that no node of the trie carried
\* a label when the pass started
UpdateWinners(i) ==
    /\ heap' = update_winners(heap, tries[i])
    /\ last' = [NoCall EXCEPT !.op = "update_winners", !.trie = i,
                   !.fresh = \A n \in Reach(heap, tries[i].head) :
                                 heap[n].winner = Player_UNDETERMINED]
    /\ ops' = ops + 1
    /\ UNCHANGED tries

\* tries[i].find_a_winner()
FindAWinner(i) ==
    /\ last' = [NoCall EXCEPT !.op = "find_a_winner", !.trie = i,
                   !.ret = find_a_winner(heap, tries[i])]
    /\ ops' = ops + 1
    /\ UNCHANGED <<heap, tries>>

\* tries[i].find_prefix(prefix): the view returned is kept as a new wrapper
FindPrefix(i, prefix) ==
    /\ LET r == find_prefix(heap, tries[i], prefix)
       IN  /\ tries' = IF r.exc = "none" THEN Append(tries, r.trie) ELSE tries
           /\ last' = [NoCall EXCEPT !.op = "find_prefix", !.trie = i,
                          !.exc = r.exc]
    /\ ops' = ops + 1
    /\ UNCHANGED heap

\* -------------------------------------------- a caller free to call anything
Call(A) == ops < MaxOps /\ A /\ UNCHANGED pc

Next ==
    \/ \E i \in 1 .. Len(tries), word \in Words : Call(AddWord(i, word))
    \/ \E i \in 1 .. Len(tries) : Call(UpdateWinners(i))
    \/ \E i \in 1 .. Len(tries) : Call(FindAWinner(i))
    \/ \E i \in 1 .. Len(tries), prefix \in Words : Call(FindPrefix(i, prefix))

Spec == Init /\ [][Next]_vars

\* ------------------------------------------- a caller that asks one query
\* the wrapper the caller holds: the Trie constructed, then the view
d == Len(tries)

\* d.add_word(word), while the dictionary is built
QueryAddWord(word) ==
    /\ pc = "build"
    /\ ops < MaxWords
    /\ AddWord(d, word)
    /\ pc' = "build"

\* d = d.find_prefix(prefix); an exception ends the query
QueryFindPrefix(prefix) ==
    /\ pc = "build"
    /\ FindPrefix(d, prefix)
    /\ pc' = IF last'.exc = "none" THEN "view" ELSE "raised"

\* d.update_winners(), on the view or on the Trie constructed
QueryUpdateWinners ==
    /\ pc \in {"build", "view"}
    /\ UpdateWinners(d)
    /\ pc' = "labelled"

\* d.find_a_winner() on the wrapper just labelled
QueryFindAWinner ==
    /\ pc = "labelled"
    /\ FindAWinner(d)
    /\ pc' = "done"

NextQuery ==
    \/ \E word \in Words : QueryAddWord(word)
    \/ \E prefix \in Words : QueryFindPrefix(prefix)
    \/ QueryUpdateWinners
    \/ QueryFindAWinner

\* Trie(first_move) with either value of first_move, then one query
SpecQuery == Init /\ [][NextQuery]_vars

\* ------------------------------------------------------ the query of test()
\* d = Trie(True)
InitTest ==
    /\ heap = <<Node>>
    /\ tries = <<[head |-> 1, first_move |-> TRUE]>>
    /\ last = NoCall
    /\ ops = 0
    /\ pc = "build"

\* for word in words: d.add_word(word)
TestAddWord(word) ==
    /\ pc = "build"
    /\ ops < MaxWords
    /\ AddWord(d, word)
    /\ pc' = "build"

\* d = d.find_prefix(prefix); an exception ends test()
TestFindPrefix(prefix) ==
    /\ pc = "build"
    /\ FindPrefix(d, prefix)
    /\ pc' = IF last'.exc = "none" THEN "view" ELSE "raised"

\* d.update_winners(), on the view find_prefix returned
TestUpdateWinners ==
    /\ pc = "view"
    /\ UpdateWinners(d)
    /\ pc' = "labelled"

\* return d.find_a_winner()
TestFindAWinner ==
    /\ pc = "labelled"
    /\ FindAWinner(d)
    /\ pc' = "done"

NextTest ==
    \/ \E word \in Words : TestAddWord(word)
    \/ \E prefix \in Words : TestFindPrefix(prefix)
    \/ TestUpdateWinners
    \/ TestFindAWinner

SpecTest == InitTest /\ [][NextTest]_vars

\* ------------------------------------------------- vocabulary of the claims
\* the node reached from n along the child slots named by string s
\* (None when a slot on the way is empty)
RECURSIVE Walk(_, _, _)
Walk(h, n, s) ==
    IF n = None \/ s = <<>> THEN n
    ELSE Walk(h, h[n].letters[s[1] - refchar], Tail(s))

\* strings that name a path of the tree below node n
Paths(h, n) == {s \in Words : Walk(h, n, s) # None}

Prefixes(s) == {SubSeq(s, 1, k) : k \in 0 .. Len(s)}

Opponent(m) == IF m = Player_YOU THEN Player_OTHER ELSE Player_YOU

\* the player who moves at depth k below the head of trie t
MoverAt(t, k) ==
    LET m == IF t.first_move THEN Player_YOU ELSE Player_OTHER
    IN  IF k % 2 = 0 THEN m ELSE Opponent(m)

Children(h, n) == {h[n].letters[p] : p \in Slots} \ {None}

\* reference value of the game at node n with m to move: a completed word
\* is a win for the player to move, otherwise m wins iff some letter leads
\* to a position m wins
RECURSIVE Minimax(_, _, _)
Minimax(h, n, m) ==
    IF h[n].ender THEN m
    ELSE IF \E c \in Children(h, n) : Minimax(h, c, Opponent(m)) = m THEN m
    ELSE Opponent(m)

Resolved(h, n) == h[n].winner \in {Player_YOU, Player_OTHER}

\* the wrapper the last call was made on
LastTrie == tries[last.trie]

TypeOK ==
    /\ \A n \in 1 .. Len(heap) :
          /\ heap[n].winner \in Player
          /\ heap[n].ender \in BOOLEAN
          /\ \A p \in Slots : heap[n].letters[p] \in 0 .. Len(heap)
    /\ \A i \in 1 .. Len(tries) :
          tries[i].head \in 1 .. Len(heap) /\ tries[i].first_move \in BOOLEAN

\* ------------------------------------------------------------------ claims

\* C1 (pruning invariant): after any sequence of add_word calls, every node
\* reachable from a head whose ender flag is set has all child slots empty.
C1_PruningInvariant ==
    \A i \in 1 .. Len(tries) : \A n \in Reach(heap, tries[i].head) :
        heap[n].ender => \A p \in Slots : heap[n].letters[p] = None

\* a shorter word was inserted after a longer one: the node of the shorter
\* word is a word end and the nodes that were below it are cut off
C1_Witness ==
    /\ last.op = "add_word"
    /\ \E n \in Reach(heap, tries[1].head) \ {tries[1].head} : heap[n].ender
    /\ Reach(heap, tries[1].head) # 1 .. Len(heap)

\* C7 (win/loss duality): after update_winners returns, every node reachable
\* from the head carries Player.YOU or Player.OTHER, never UNDETERMINED.
C7_NoUndetermined ==
    last.op = "update_winners" =>
        \A n \in Reach(heap, LastTrie.head) : Resolved(heap, n)

\* a labelled tree of several nodes on which both outcomes occur
C7_Witness ==
    /\ last.op = "update_winners"
    /\ Cardinality(Reach(heap, LastTrie.head)) >= 3
    /\ \E n, k \in Reach(heap, LastTrie.head) :
          heap[n].winner = Player_YOU /\ heap[k].winner = Player_OTHER

\* C8 (minimax labelling): after update_winners on an unlabelled tree, a node
\* with mover m is labelled m if it is a word end or has a child labelled m,
\* and opponent(m) otherwise; the label is the minimax value of the game.
C8_MinimaxLabelling ==
    (last.op = "update_winners" /\ last.fresh) =>
        \A s \in Paths(heap, LastTrie.head) :
            LET n == Walk(heap, LastTrie.head, s)
                m == MoverAt(LastTrie, Len(s))
            IN  /\ heap[n].winner =
                      IF heap[n].ender \/ \E c \in Children(heap, n) : heap[c].winner = m
                      THEN m ELSE Opponent(m)
                /\ heap[n].winner = Minimax(heap, n, m)

\* a node with two children, one won by its mover and one by the opponent
C8_Witness ==
    /\ last.op = "update_winners" /\ last.fresh
    /\ \E s \in Paths(heap, LastTrie.head) :
          LET n == Walk(heap, LastTrie.head, s)
              m == MoverAt(LastTrie, Len(s))
          IN  /\ heap[n].winner = m
              /\ \E c, e \in Children(heap, n) :
                    heap[c].winner = m /\ heap[e].winner = Opponent(m)

\* C6 (soundness of extraction): a non-empty continuation returned by
\* find_a_winner after update_winners follows existing child slots, passes
\* only through nodes labelled Player.YOU and stops at a word end.
C6_ExtractionSound ==
    (last.op = "find_a_winner" /\ last.ret # <<>>) =>
        /\ \A s \in Prefixes(last.ret) \ {<<>>} :
              LET n == Walk(heap, LastTrie.head, s)
              IN  n # None /\ heap[n].winner = Player_YOU
        /\ heap[Walk(heap, LastTrie.head, last.ret)].ender

\* a continuation of two letters was returned from a view or tree
C6_Witness ==
    /\ last.op = "find_a_winner"
    /\ Len(last.ret) >= 2
    /\ \A n \in Reach(heap, LastTrie.head) : Resolved(heap, n)

\* string s followed by some continuation gives string w
BeginsWith(w, s) == Len(w) >= Len(s) /\ SubSeq(w, 1, Len(s)) = s

\* C2 (top-level result shape): when the query build, find_prefix(prefix),
\* update_winners, find_a_winner ends at a view whose head is labelled
\* Player.YOU, the string returned begins with the prefix of the view.
C2_AnswerBeginsWithPrefix ==
    (pc = "done" /\ Len(tries) = 2 /\ heap[tries[2].head].winner = Player_YOU) =>
        \A s \in Paths(heap, tries[1].head) :
            Walk(heap, tries[1].head, s) = tries[2].head => BeginsWith(last.ret, s)

\* C3 (view parity): the view find_prefix returns has first_move negated
\* when the prefix has odd length and unchanged when it has even length.
C3_ViewParity ==
    [][\A prefix \in Words :
          (TestFindPrefix(prefix) /\ last'.exc = "none") =>
              tries'[Len(tries')].first_move =
                  IF Len(prefix) % 2 = 1 THEN ~tries[d].first_move
                  ELSE tries[d].first_move]_vars

\* the walk of string s from node n stops at a word end with a letter left
\* to consume, or at an empty child slot
Blocked(h, n, s) ==
    \E k \in 1 .. Len(s) :
        LET c == Walk(h, n, SubSeq(s, 1, k - 1))
        IN  c # None /\ (h[c].ender \/ h[c].letters[s[k] - refchar] = None)

\* C4 (PrefixNotFound): find_prefix raises the prefix-not-found exception
\* exactly when the walk of the prefix is blocked, otherwise it returns a view
\* whose head is the node reached; no node is modified either way.
C4_PrefixNotFound ==
    [][\A i \in 1 .. Len(tries), prefix \in Words :
          Call(FindPrefix(i, prefix)) =>
              /\ last'.exc = "Exception" <=> Blocked(heap, tries[i].head, prefix)
              /\ ~Blocked(heap, tries[i].head, prefix) =>
                    /\ last'.exc = "none"
                    /\ Len(tries') = Len(tries) + 1
                    /\ tries'[Len(tries')].head = Walk(heap, tries[i].head, prefix)
              /\ heap' = heap]_vars

\* C5 (empty starting prefix): find_prefix("") raises nothing and returns a
\* view with the head and the first_move of the tree it was called on.
C5_EmptyPrefixValid ==
    [][TestFindPrefix(<<>>) =>
          /\ last'.exc = "none"
          /\ pc' = "view"
          /\ tries'[Len(tries')] = tries[d]]_vars

\* heap h with every label erased, as after construction
Unlabelled(h) == [n \in 1 .. Len(h) |-> [h[n] EXCEPT !.winner = Player_UNDETERMINED]]

\* C9 (labels are a function of shape and starting mover): update_winners
\* leaves the labels, and find_a_winner the result, that the same calls give
\* on an unlabelled tree of the same shape.
C9_LabelsPure ==
    last.op = "update_winners" =>
        LET f == update_winners(Unlabelled(heap), LastTrie)
        IN  /\ \A n \in Reach(heap, LastTrie.head) : heap[n].winner = f[n].winner
            /\ find_a_winner(heap, LastTrie) = find_a_winner(f, LastTrie)

\* C10 (no empty continuation on a win): after update_winners, find_a_winner
\* on a tree or view whose head is labelled Player.YOU returns a non-empty
\* string.
C10_NonEmptyOnWin ==
    (last.op = "find_a_winner" /\ heap[LastTrie.head].winner = Player_YOU) =>
        last.ret # <<>>
====
